---- MODULE Spec2Model ----
(***************************************************************************)
(* channels_presence: rooms, presences, the channel layer's groups and the *)
(* presence_changed signal, as concurrent tasks calling the managers of    *)
(* src/channels_presence/models.py.  Every ORM statement, channel-layer    *)
(* call and signal dispatch is one step of a task; tasks interleave        *)
(* between steps.                                                          *)
(***************************************************************************)
EXTENDS Integers, Sequences, FiniteSets

\* ------------------------------------------------------------------ bounds
\* Operations started in one run.
MaxOps == 3
\* The clock stops advancing here.
MaxTime == 61
\* settings.CHANNELS_PRESENCE_MAX_AGE's default.
DefaultMaxAge == 60

Procs == {"t1", "t2"}
RoomNames == {"lobby", "chat"}
Channels == {"c1", "c2"}
None == "None"
\* What a caller passes as user: nothing, an unauthenticated user, a user.
UserInputs == {None, "anon", "alice"}
\* age: <<>> is None, <<n>> is n seconds.
AgeInputs == {<<>>, <<30>>}
\* Seconds that may pass between two steps.
Elapsed == {60, 61}

NoRoom == [id |-> 0, channel_name |-> None]
NoPresence == [id |-> 0, room |-> 0, channel_name |-> None, user |-> None, last_seen |-> 0]

VARIABLES
    rooms,          \* Room rows: [id, channel_name]
    presences,      \* Presence rows: [id, room, channel_name, user, last_seen]
    nextRoomId,     \* Room's AutoField
    nextPresenceId, \* Presence's AutoField
    groups,         \* the channel layer: <<group, channel>> subscriptions
    now,            \* django.utils.timezone.now()
    task,           \* each task's call frame
    nOps,           \* calls started
    calls,          \* channel-layer calls made so far, per <<group, channel>>
    trace           \* per room name, in order: the commits of Presence rows and the
                    \* presence_changed signals sent

vars == <<rooms, presences, nextRoomId, nextPresenceId, groups, now, task, nOps, calls,
          trace>>
store == <<rooms, presences, nextRoomId, nextPresenceId>>

IdleFrame == [pc |-> "done", op |-> None, room |-> None, ch |-> None,
              user |-> None,   \* add_presence's authed_user
              age |-> <<>>, r |-> NoRoom, pres |-> NoPresence, todo |-> {},
              created |-> FALSE, raced |-> FALSE, res |-> "ok"]

Init ==
    /\ rooms = {}
    /\ presences = {}
    /\ nextRoomId = 1
    /\ nextPresenceId = 1
    /\ groups = {}
    /\ now = 0
    /\ task = [p \in Procs |-> IdleFrame]
    /\ nOps = 0
    /\ calls = [k \in RoomNames \X Channels |-> [add |-> 0, discard |-> 0]]
    /\ trace = [rn \in RoomNames |-> <<>>]

\* ----------------------------------------------------------------- helpers
Entry(t, r, ch, pid, got) ==
    [t |-> t, rid |-> r.id, ch |-> ch, pid |-> pid, got |-> got]

\* A commit of Presence rows of room r.
Log(t, r, ch, pid) ==
    trace' = [trace EXCEPT ![r.channel_name] = Append(@, Entry(t, r, ch, pid, {}))]

\* The receivers connected to presence_changed, in the order send() calls them.
Receivers == <<"l1", "l2">>
\* The places in Receivers of the receivers that may raise.
Faulty == {1}

\* Room.broadcast_changed: presence_changed.send(sender, room, added, removed,
\* bulk_change) calls the receivers in order; one that raises ends the dispatch and
\* the exception leaves send(). k receivers were called.
BroadcastChanged(t, r, ch, pid, k) ==
    trace' = [trace EXCEPT ![r.channel_name] =
                Append(@, Entry(t, r, ch, pid, {Receivers[i] : i \in 1..k}))]

Goto(p, pc) == task' = [task EXCEPT ![p].pc = pc]

\* Faulty variant of AuthedUser: is_authenticated is not looked at.
AuthedUserUnchecked(user) == user
\* add_presence's authed_user: user if user and user.is_authenticated, else None.
AuthedUser(user) == IF user \in {None, "anon"} THEN None ELSE user

\* The call returns (or raises res).
Return(f, res) ==
    [f EXCEPT !.pc = "done", !.res = res, !.r = NoRoom, !.pres = NoPresence, !.todo = {}]

Call(p, op, rn, ch, user, age) ==
    /\ task[p].pc = "done"
    /\ nOps < MaxOps
    /\ nOps' = nOps + 1
    /\ task' = [task EXCEPT ![p] =
                  [IdleFrame EXCEPT !.pc = op, !.op = op, !.room = rn, !.ch = ch,
                                    !.user = AuthedUser(user), !.age = age]]
    /\ UNCHANGED <<store, groups, calls, now, trace>>

\* Room.objects.get(channel_name=name): the rows it matches.
RoomsNamed(name) == {r \in rooms : r.channel_name = name}

\* Faulty variant of RoomInsertOk: no unique=True.
RoomInsertNoUnique(name) == TRUE
\* Room.channel_name is unique=True: may a row with this name be inserted?
RoomInsertOk(name) == RoomsNamed(name) = {}

\* Presence.objects.get(room=room, channel_name=ch): the rows it matches.
PresencesOf(rid, ch) == {x \in presences : x.room = rid /\ x.channel_name = ch}

\* Presence.objects.get(room=room, channel_name=ch, user=user)
PresencesOfUser(rid, ch, user) == {x \in PresencesOf(rid, ch) : x.user = user}

\* Faulty variant of PresenceInsertOk: no unique_together.
PresenceInsertNoUnique(rid, ch) == \E r \in rooms : r.id = rid
\* Presence's constraints on INSERT: the room foreign key and
\* unique_together (room, channel_name).
PresenceInsertOk(rid, ch) ==
    /\ \E r \in rooms : r.id = rid
    /\ PresencesOf(rid, ch) = {}

\* ------------------------------------------------- RoomManager.add (Join)
JoinCall(p) ==
    \E rn \in RoomNames, ch \in Channels, u \in UserInputs :
        Call(p, "add", rn, ch, u, <<>>)

\* get_or_create(channel_name=...): the first get.
AddGetRoom(p) ==
    /\ task[p].pc = "add"
    /\ LET found == RoomsNamed(task[p].room) IN
       IF found # {}
       THEN task' = [task EXCEPT ![p].pc = "ap_get", ![p].r = CHOOSE r \in found : TRUE]
       ELSE Goto(p, "add_create_room")
    /\ UNCHANGED <<store, groups, calls, now, nOps, trace>>

\* get_or_create: the INSERT, and on IntegrityError the second get.
AddCreateRoom(p) ==
    /\ task[p].pc = "add_create_room"
    /\ IF RoomInsertOk(task[p].room)
       THEN LET r == [id |-> nextRoomId, channel_name |-> task[p].room] IN
            /\ rooms' = rooms \cup {r}
            /\ nextRoomId' = nextRoomId + 1
            /\ task' = [task EXCEPT ![p].pc = "ap_get", ![p].r = r]
       ELSE /\ task' = [task EXCEPT ![p].pc = "add_reget_room", ![p].raced = TRUE]
            /\ UNCHANGED <<rooms, nextRoomId>>
    /\ UNCHANGED <<presences, nextPresenceId, groups, calls, now, nOps, trace>>

AddRegetRoom(p) ==
    /\ task[p].pc = "add_reget_room"
    /\ LET found == RoomsNamed(task[p].room) IN
       IF found # {}
       THEN task' = [task EXCEPT ![p].pc = "ap_get", ![p].r = CHOOSE r \in found : TRUE]
       ELSE task' = [task EXCEPT ![p] = Return(@, "IntegrityError")]
    /\ UNCHANGED <<store, groups, calls, now, nOps, trace>>

\* Faulty variant of ApGet: a row that was found counts as created.
ApGetAsCreated(p) ==
    /\ task[p].pc = "ap_get"
    /\ LET f == task[p]
           found == PresencesOfUser(f.r.id, f.ch, f.user) IN
       IF found # {}
       THEN task' = [task EXCEPT ![p].pc = "ap_group_add",
                                 ![p].pres = CHOOSE x \in found : TRUE]
       ELSE Goto(p, "ap_create")
    /\ UNCHANGED <<store, groups, calls, now, nOps, trace>>

\* Room.add_presence: Presence.objects.get_or_create(room=self, channel_name, user)
ApGet(p) ==
    /\ task[p].pc = "ap_get"
    /\ LET f == task[p]
           found == PresencesOfUser(f.r.id, f.ch, f.user) IN
       IF found # {}
       THEN task' = [task EXCEPT ![p] = Return(@, "ok")]
       ELSE Goto(p, "ap_create")
    /\ UNCHANGED <<store, groups, calls, now, nOps, trace>>

ApCreate(p) ==
    /\ task[p].pc = "ap_create"
    /\ LET f == task[p] IN
       IF PresenceInsertOk(f.r.id, f.ch)
       THEN LET x == [id |-> nextPresenceId, room |-> f.r.id, channel_name |-> f.ch,
                      user |-> f.user, last_seen |-> now] IN
            /\ presences' = presences \cup {x}
            /\ nextPresenceId' = nextPresenceId + 1
            /\ task' = [task EXCEPT ![p].pc = "ap_group_add", ![p].pres = x,
                                    ![p].created = TRUE]
            /\ Log("create", f.r, f.ch, x.id)
       ELSE /\ task' = [task EXCEPT ![p].pc = "ap_reget", ![p].raced = TRUE]
            /\ UNCHANGED <<presences, nextPresenceId, trace>>
    /\ UNCHANGED <<rooms, nextRoomId, groups, calls, now, nOps>>

\* Faulty variant of ApReget: the call that lost the INSERT goes on as if it had
\* created the row.
ApRegetAsCreated(p) ==
    /\ task[p].pc = "ap_reget"
    /\ LET f == task[p]
           found == PresencesOfUser(f.r.id, f.ch, f.user) IN
       IF found # {}
       THEN task' = [task EXCEPT ![p].pc = "ap_group_add",
                                 ![p].pres = CHOOSE x \in found : TRUE]
       ELSE task' = [task EXCEPT ![p] = Return(@, "IntegrityError")]
    /\ UNCHANGED <<store, groups, calls, now, nOps, trace>>

\* get_or_create after IntegrityError: get again, or re-raise.
ApReget(p) ==
    /\ task[p].pc = "ap_reget"
    /\ LET f == task[p]
           found == PresencesOfUser(f.r.id, f.ch, f.user) IN
       IF found # {}
       THEN task' = [task EXCEPT ![p] = Return(@, "ok")]
       ELSE task' = [task EXCEPT ![p] = Return(@, "IntegrityError")]
    /\ UNCHANGED <<store, groups, calls, now, nOps, trace>>

\* if created: channel_layer.group_add(self.channel_name, channel_name)
ApGroupAdd(p) ==
    /\ task[p].pc = "ap_group_add"
    /\ LET f == task[p] IN
       /\ groups' = groups \cup {<<f.r.channel_name, f.ch>>}
       /\ calls' = [calls EXCEPT ![<<f.r.channel_name, f.ch>>].add = @ + 1]
    /\ Goto(p, "ap_broadcast")
    /\ UNCHANGED <<store, now, nOps, trace>>

\* self.broadcast_changed(added=presence)
ApBroadcast(p) ==
    /\ task[p].pc = "ap_broadcast"
    /\ LET f == task[p] IN BroadcastChanged("added", f.r, f.ch, f.pres.id, Len(Receivers))
    /\ task' = [task EXCEPT ![p] = Return(@, "ok")]
    /\ UNCHANGED <<store, groups, calls, now, nOps>>

\* ... with a receiver that raises: the exception leaves add_presence and add.
ApBroadcastRaise(p) ==
    /\ task[p].pc = "ap_broadcast"
    /\ \E k \in Faulty :
         LET f == task[p] IN BroadcastChanged("added", f.r, f.ch, f.pres.id, k)
    /\ task' = [task EXCEPT ![p] = Return(@, "ListenerError")]
    /\ UNCHANGED <<store, groups, calls, now, nOps>>

JoinSteps(p) ==
    \/ AddGetRoom(p)
    \/ AddCreateRoom(p)
    \/ ApGet(p)
    \/ ApCreate(p)
    \/ ApReget(p)
    \/ ApGroupAdd(p)
    \/ ApBroadcast(p)

\* --------------------------------------------- RoomManager.remove (Leave)
LeaveCall(p) ==
    \E rn \in RoomNames, ch \in Channels : Call(p, "remove", rn, ch, None, <<>>)

\* Room.objects.get(channel_name=...); except ObjectDoesNotExist: return
RemoveGetRoom(p) ==
    /\ task[p].pc = "remove"
    /\ LET found == RoomsNamed(task[p].room) IN
       IF found # {}
       THEN task' = [task EXCEPT ![p].pc = "rp_get", ![p].r = CHOOSE r \in found : TRUE]
       ELSE task' = [task EXCEPT ![p] = Return(@, "ok")]
    /\ UNCHANGED <<store, groups, calls, now, nOps, trace>>

\* Faulty variant of RpGet: the lookup without its except clause.
RpGetNoExcept(p) ==
    /\ task[p].pc = "rp_get"
    /\ LET found == PresencesOf(task[p].r.id, task[p].ch) IN
       IF found # {}
       THEN task' = [task EXCEPT ![p].pc = "rp_discard",
                                 ![p].pres = CHOOSE x \in found : TRUE]
       ELSE task' = [task EXCEPT ![p] = Return(@, "DoesNotExist")]
    /\ UNCHANGED <<store, groups, calls, now, nOps, trace>>

\* Room.remove_presence(channel_name): Presence.objects.get(room=self, channel_name);
\* except ObjectDoesNotExist: return
RpGet(p) ==
    /\ task[p].pc = "rp_get"
    /\ LET found == PresencesOf(task[p].r.id, task[p].ch) IN
       IF found # {}
       THEN task' = [task EXCEPT ![p].pc = "rp_discard",
                                 ![p].pres = CHOOSE x \in found : TRUE]
       ELSE task' = [task EXCEPT ![p] = Return(@, "ok")]
    /\ UNCHANGED <<store, groups, calls, now, nOps, trace>>

\* channel_layer.group_discard(self.channel_name, presence.channel_name)
RpDiscard(p) ==
    /\ task[p].pc = "rp_discard"
    /\ LET f == task[p] IN
       /\ groups' = groups \ {<<f.r.channel_name, f.pres.channel_name>>}
       /\ calls' = [calls EXCEPT ![<<f.r.channel_name, f.pres.channel_name>>].discard = @ + 1]
    /\ Goto(p, "rp_delete")
    /\ UNCHANGED <<store, now, nOps, trace>>

\* presence.delete(): DELETE ... WHERE id = presence.pk
RpDelete(p) ==
    /\ task[p].pc = "rp_delete"
    /\ LET f == task[p]
           gone == {x \in presences : x.id = f.pres.id} IN
       /\ presences' = presences \ gone
       /\ IF gone # {}
          THEN Log("delete", f.r, f.pres.channel_name, f.pres.id)
          ELSE UNCHANGED trace
    /\ Goto(p, "rp_broadcast")
    /\ UNCHANGED <<rooms, nextRoomId, nextPresenceId, groups, calls, now, nOps>>

\* self.broadcast_changed(removed=presence); leave_all goes on with its loop.
RpBroadcast(p) ==
    /\ task[p].pc = "rp_broadcast"
    /\ LET f == task[p] IN
       BroadcastChanged("removed", f.r, f.pres.channel_name, f.pres.id, Len(Receivers))
    /\ IF task[p].op = "leave_all"
       THEN task' = [task EXCEPT ![p].pc = "la_next", ![p].r = NoRoom,
                                 ![p].pres = NoPresence]
       ELSE task' = [task EXCEPT ![p] = Return(@, "ok")]
    /\ UNCHANGED <<store, groups, calls, now, nOps>>

\* ... with a receiver that raises: the exception leaves remove_presence, and
\* leave_all's loop with it.
RpBroadcastRaise(p) ==
    /\ task[p].pc = "rp_broadcast"
    /\ \E k \in Faulty :
         LET f == task[p] IN
         BroadcastChanged("removed", f.r, f.pres.channel_name, f.pres.id, k)
    /\ task' = [task EXCEPT ![p] = Return(@, "ListenerError")]
    /\ UNCHANGED <<store, groups, calls, now, nOps>>

RemovePresenceSteps(p) == RpDiscard(p) \/ RpDelete(p) \/ RpBroadcast(p)

LeaveSteps(p) == RemoveGetRoom(p) \/ RpGet(p)

\* ------------------------------------- PresenceManager.leave_all (LeaveAll)
LeaveAllCall(p) == \E ch \in Channels : Call(p, "leave_all", None, ch, None, <<>>)

RoomById(rid) == CHOOSE r \in rooms : r.id = rid

\* Faulty variant of LaQuery: only one of the channel's presences is loaded.
LaQueryFirst(p) ==
    /\ task[p].pc = "leave_all"
    /\ LET mine == {y \in presences : y.channel_name = task[p].ch} IN
       task' = [task EXCEPT ![p].pc = "la_next",
                  ![p].todo = IF mine = {} THEN {}
                              ELSE LET x == CHOOSE y \in mine : TRUE IN
                                   {[pres |-> x, r |-> RoomById(x.room)]}]
    /\ UNCHANGED <<store, groups, calls, now, nOps, trace>>

\* self.select_related("room", "user").filter(channel_name=channel_name): one query
\* loads the presences and their rooms.
LaQuery(p) ==
    /\ task[p].pc = "leave_all"
    /\ task' = [task EXCEPT ![p].pc = "la_next",
                  ![p].todo = {[pres |-> x, r |-> RoomById(x.room)] :
                                 x \in {y \in presences : y.channel_name = task[p].ch}}]
    /\ UNCHANGED <<store, groups, calls, now, nOps, trace>>

\* for presence in ...: room.remove_presence(presence=presence); the queryset has no
\* ordering.
LaNext(p) ==
    /\ task[p].pc = "la_next"
    /\ IF task[p].todo = {}
       THEN task' = [task EXCEPT ![p] = Return(@, "ok")]
       ELSE \E e \in task[p].todo :
              task' = [task EXCEPT ![p].pc = "rp_discard", ![p].r = e.r,
                                   ![p].pres = e.pres, ![p].todo = @ \ {e}]
    /\ UNCHANGED <<store, groups, calls, now, nOps, trace>>

LeaveAllSteps(p) == LaQuery(p) \/ LaNext(p)

\* ------------------------------------------- PresenceManager.touch (Touch)
TouchCall(p) == \E ch \in Channels : Call(p, "touch", None, ch, None, <<>>)

\* Faulty variant of Touched: no filter.
TouchedAll(ch) == presences
\* The rows of filter(channel_name=channel_name).
Touched(ch) == {x \in presences : x.channel_name = ch}

\* self.filter(channel_name=channel_name).update(last_seen=now())
Touch(p) ==
    /\ task[p].pc = "touch"
    /\ LET hit == Touched(task[p].ch) IN
       presences' = (presences \ hit) \cup {[x EXCEPT !.last_seen = now] : x \in hit}
    /\ task' = [task EXCEPT ![p] = Return(@, "ok")]
    /\ UNCHANGED <<rooms, nextRoomId, nextPresenceId, groups, calls, now, nOps, trace>>

\* ----------------------------------- RoomManager.prune_presences (PruneStale)
PruneCall(p) == \E age \in AgeInputs : Call(p, "prune_presences", None, None, None, age)

\* for room in Room.objects.all()
PpQuery(p) ==
    /\ task[p].pc = "prune_presences"
    /\ task' = [task EXCEPT ![p].pc = "pp_next", ![p].todo = rooms]
    /\ UNCHANGED <<store, groups, calls, now, nOps, trace>>

\* age_in_seconds, or CHANNELS_PRESENCE_MAX_AGE's default when it is None.
MaxAge(age) == IF age = <<>> THEN DefaultMaxAge ELSE age[1]

\* Faulty variant of Stale: last_seen__lte.
StaleInclusive(rid, age) ==
    {x \in presences : x.room = rid /\ x.last_seen <= now - MaxAge(age)}
\* filter(room=self, last_seen__lt=now() - timedelta(seconds=age_in_seconds))
Stale(rid, age) ==
    {x \in presences : x.room = rid /\ x.last_seen < now - MaxAge(age)}

\* Faulty variant of PpDelete: the channels of the deleted rows are discarded from the
\* room's group.
PpDeleteDiscarding(p) ==
    /\ task[p].pc = "pp_next"
    /\ IF task[p].todo = {}
       THEN /\ task' = [task EXCEPT ![p] = Return(@, "ok")]
            /\ UNCHANGED <<presences, trace, groups>>
       ELSE \E r \in task[p].todo :
              LET gone == Stale(r.id, task[p].age) IN
              /\ presences' = presences \ gone
              /\ groups' = groups \ {<<r.channel_name, x.channel_name>> : x \in gone}
              /\ IF Cardinality(gone) > 0
                 THEN /\ task' = [task EXCEPT ![p].pc = "pp_broadcast", ![p].r = r,
                                              ![p].todo = @ \ {r}]
                      /\ Log("bulk_delete", r, None, 0)
                 ELSE /\ task' = [task EXCEPT ![p].todo = @ \ {r}]
                      /\ UNCHANGED trace
    /\ UNCHANGED <<rooms, nextRoomId, nextPresenceId, calls, now, nOps>>

\* Room.prune_presences: the delete, of the next room of the loop.
PpDelete(p) ==
    /\ task[p].pc = "pp_next"
    /\ IF task[p].todo = {}
       THEN /\ task' = [task EXCEPT ![p] = Return(@, "ok")]
            /\ UNCHANGED <<presences, trace>>
       ELSE \E r \in task[p].todo :
              LET gone == Stale(r.id, task[p].age) IN
              /\ presences' = presences \ gone
              /\ IF Cardinality(gone) > 0
                 THEN /\ task' = [task EXCEPT ![p].pc = "pp_broadcast", ![p].r = r,
                                              ![p].todo = @ \ {r}]
                      /\ Log("bulk_delete", r, None, 0)
                 ELSE /\ task' = [task EXCEPT ![p].todo = @ \ {r}]
                      /\ UNCHANGED trace
    /\ UNCHANGED <<rooms, nextRoomId, nextPresenceId, groups, calls, now, nOps>>

\* if num_deleted > 0: self.broadcast_changed(bulk_change=True)
PpBroadcast(p) ==
    /\ task[p].pc = "pp_broadcast"
    /\ BroadcastChanged("bulk", task[p].r, None, 0, Len(Receivers))
    /\ task' = [task EXCEPT ![p].pc = "pp_next", ![p].r = NoRoom]
    /\ UNCHANGED <<store, groups, calls, now, nOps>>

\* ... with a receiver that raises: the exception leaves Room.prune_presences, and
\* RoomManager.prune_presences's loop with it.
PpBroadcastRaise(p) ==
    /\ task[p].pc = "pp_broadcast"
    /\ \E k \in Faulty : BroadcastChanged("bulk", task[p].r, None, 0, k)
    /\ task' = [task EXCEPT ![p] = Return(@, "ListenerError")]
    /\ UNCHANGED <<store, groups, calls, now, nOps>>

PruneSteps(p) == PpQuery(p) \/ PpDelete(p) \/ PpBroadcast(p)

\* ---------------------------------- RoomManager.prune_rooms (PruneEmptyRooms)
PruneRoomsCall(p) == Call(p, "prune_rooms", None, None, None, <<>>)

\* Faulty variant of EmptyRooms: filter(presence__isnull=False).
NonEmptyRooms == {r \in rooms : \E x \in presences : x.room = r.id}
\* filter(presence__isnull=True)
EmptyRooms == {r \in rooms : ~ \E x \in presences : x.room = r.id}

\* .delete() of a queryset whose model has a CASCADE relation pointing at it (Presence.room):
\* the rows are selected first ...
PrCollect(p) ==
    /\ task[p].pc = "prune_rooms"
    /\ task' = [task EXCEPT ![p].pc = "pr_delete", ![p].todo = EmptyRooms]
    /\ UNCHANGED <<store, groups, calls, now, nOps, trace>>

\* ... then, in one transaction, the presences of the selected rooms (on_delete=CASCADE)
\* and the selected rooms are deleted by primary key.
PrDelete(p) ==
    /\ task[p].pc = "pr_delete"
    /\ LET ids == {r.id : r \in task[p].todo} IN
       /\ presences' = {x \in presences : x.room \notin ids}
       /\ rooms' = {r \in rooms : r.id \notin ids}
    /\ task' = [task EXCEPT ![p] = Return(@, "ok")]
    /\ UNCHANGED <<nextRoomId, nextPresenceId, groups, calls, now, nOps, trace>>

PruneRoomsSteps(p) == PrCollect(p) \/ PrDelete(p)

\* ------------------------------------------------- the non-blocking forms
\* A call of a non-blocking form (add_async, remove_async, touch_async, leave_all_async,
\* prune_presences_async, prune_rooms_async): in flight, res tells the form.
CallAsync(p) ==
    /\ task[p].pc = "done"
    /\ nOps < MaxOps
    /\ nOps' = nOps + 1
    /\ \E op \in {"add", "remove", "leave_all", "touch", "prune_presences", "prune_rooms"} :
         \E rn \in (IF op \in {"add", "remove"} THEN RoomNames ELSE {None}),
            ch \in (IF op \in {"add", "remove", "leave_all", "touch"} THEN Channels ELSE {None}),
            u \in (IF op = "add" THEN UserInputs ELSE {None}),
            age \in (IF op = "prune_presences" THEN AgeInputs ELSE {<<>>}) :
           task' = [task EXCEPT ![p] =
                      [IdleFrame EXCEPT !.pc = op, !.op = op, !.room = rn, !.ch = ch,
                                        !.user = AuthedUser(u), !.age = age,
                                        !.res = "async"]]
    /\ UNCHANGED <<store, groups, calls, now, trace>>

\* Is the call of task p one of a non-blocking form?
IsAsync(p) == task[p].pc # "done" /\ task[p].res = "async"

\* Faulty variant of ApGroupAddAsync: the coroutine is not awaited, so group_add never
\* runs.
ApGroupAddAsyncNotAwaited(p) ==
    /\ IsAsync(p)
    /\ task[p].pc = "ap_group_add"
    /\ Goto(p, "ap_broadcast")
    /\ UNCHANGED <<store, groups, calls, now, nOps, trace>>

\* add_async: await Room.objects.aget_or_create(channel_name=...): the first get.
AddGetRoomAsync(p) ==
    /\ IsAsync(p)
    /\ task[p].pc = "add"
    /\ LET found == RoomsNamed(task[p].room) IN
       IF found # {}
       THEN task' = [task EXCEPT ![p].pc = "ap_get", ![p].r = CHOOSE r \in found : TRUE]
       ELSE Goto(p, "add_create_room")
    /\ UNCHANGED <<store, groups, calls, now, nOps, trace>>

\* aget_or_create: the INSERT, and on IntegrityError the second get.
AddCreateRoomAsync(p) ==
    /\ IsAsync(p)
    /\ task[p].pc = "add_create_room"
    /\ IF RoomInsertOk(task[p].room)
       THEN LET r == [id |-> nextRoomId, channel_name |-> task[p].room] IN
            /\ rooms' = rooms \cup {r}
            /\ nextRoomId' = nextRoomId + 1
            /\ task' = [task EXCEPT ![p].pc = "ap_get", ![p].r = r]
       ELSE /\ task' = [task EXCEPT ![p].pc = "add_reget_room", ![p].raced = TRUE]
            /\ UNCHANGED <<rooms, nextRoomId>>
    /\ UNCHANGED <<presences, nextPresenceId, groups, calls, now, nOps, trace>>

\* aget_or_create after IntegrityError: get again, or re-raise.
AddRegetRoomAsync(p) ==
    /\ IsAsync(p)
    /\ task[p].pc = "add_reget_room"
    /\ LET found == RoomsNamed(task[p].room) IN
       IF found # {}
       THEN task' = [task EXCEPT ![p].pc = "ap_get", ![p].r = CHOOSE r \in found : TRUE]
       ELSE task' = [task EXCEPT ![p] = Return(@, "IntegrityError")]
    /\ UNCHANGED <<store, groups, calls, now, nOps, trace>>

\* Room.add_presence_async: await Presence.objects.aget_or_create(room=self,
\* channel_name, user=authed_user): the first get.
ApGetAsync(p) ==
    /\ IsAsync(p)
    /\ task[p].pc = "ap_get"
    /\ LET f == task[p]
           found == PresencesOfUser(f.r.id, f.ch, f.user) IN
       IF found # {}
       THEN task' = [task EXCEPT ![p] = Return(@, "ok")]
       ELSE Goto(p, "ap_create")
    /\ UNCHANGED <<store, groups, calls, now, nOps, trace>>

\* aget_or_create: the INSERT.
ApCreateAsync(p) ==
    /\ IsAsync(p)
    /\ task[p].pc = "ap_create"
    /\ LET f == task[p] IN
       IF PresenceInsertOk(f.r.id, f.ch)
       THEN LET x == [id |-> nextPresenceId, room |-> f.r.id, channel_name |-> f.ch,
                      user |-> f.user, last_seen |-> now] IN
            /\ presences' = presences \cup {x}
            /\ nextPresenceId' = nextPresenceId + 1
            /\ task' = [task EXCEPT ![p].pc = "ap_group_add", ![p].pres = x,
                                    ![p].created = TRUE]
            /\ Log("create", f.r, f.ch, x.id)
       ELSE /\ task' = [task EXCEPT ![p].pc = "ap_reget", ![p].raced = TRUE]
            /\ UNCHANGED <<presences, nextPresenceId, trace>>
    /\ UNCHANGED <<rooms, nextRoomId, groups, calls, now, nOps>>

\* aget_or_create after IntegrityError: get again, or re-raise.
ApRegetAsync(p) ==
    /\ IsAsync(p)
    /\ task[p].pc = "ap_reget"
    /\ LET f == task[p]
           found == PresencesOfUser(f.r.id, f.ch, f.user) IN
       IF found # {}
       THEN task' = [task EXCEPT ![p] = Return(@, "ok")]
       ELSE task' = [task EXCEPT ![p] = Return(@, "IntegrityError")]
    /\ UNCHANGED <<store, groups, calls, now, nOps, trace>>

\* if cr: await channel_layer.group_add(self.channel_name, channel_name)
ApGroupAddAsync(p) ==
    /\ IsAsync(p)
    /\ task[p].pc = "ap_group_add"
    /\ LET f == task[p] IN
       /\ groups' = groups \cup {<<f.r.channel_name, f.ch>>}
       /\ calls' = [calls EXCEPT ![<<f.r.channel_name, f.ch>>].add = @ + 1]
    /\ Goto(p, "ap_broadcast")
    /\ UNCHANGED <<store, now, nOps, trace>>

\* self.broadcast_changed(added=presence)
ApBroadcastAsync(p) ==
    /\ IsAsync(p)
    /\ task[p].pc = "ap_broadcast"
    /\ LET f == task[p] IN BroadcastChanged("added", f.r, f.ch, f.pres.id, Len(Receivers))
    /\ task' = [task EXCEPT ![p] = Return(@, "ok")]
    /\ UNCHANGED <<store, groups, calls, now, nOps>>

\* remove_async: await Room.objects.aget(channel_name=...); except ObjectDoesNotExist:
\* return
RemoveGetRoomAsync(p) ==
    /\ IsAsync(p)
    /\ task[p].pc = "remove"
    /\ LET found == RoomsNamed(task[p].room) IN
       IF found # {}
       THEN task' = [task EXCEPT ![p].pc = "rp_get", ![p].r = CHOOSE r \in found : TRUE]
       ELSE task' = [task EXCEPT ![p] = Return(@, "ok")]
    /\ UNCHANGED <<store, groups, calls, now, nOps, trace>>

\* Room.remove_presence_async(channel_name): await Presence.objects.aget(room=self,
\* channel_name); except ObjectDoesNotExist: return
RpGetAsync(p) ==
    /\ IsAsync(p)
    /\ task[p].pc = "rp_get"
    /\ LET found == PresencesOf(task[p].r.id, task[p].ch) IN
       IF found # {}
       THEN task' = [task EXCEPT ![p].pc = "rp_discard",
                                 ![p].pres = CHOOSE x \in found : TRUE]
       ELSE task' = [task EXCEPT ![p] = Return(@, "ok")]
    /\ UNCHANGED <<store, groups, calls, now, nOps, trace>>

\* await channel_layer.group_discard(self.channel_name, presence.channel_name)
RpDiscardAsync(p) ==
    /\ IsAsync(p)
    /\ task[p].pc = "rp_discard"
    /\ LET f == task[p] IN
       /\ groups' = groups \ {<<f.r.channel_name, f.pres.channel_name>>}
       /\ calls' = [calls EXCEPT ![<<f.r.channel_name, f.pres.channel_name>>].discard = @ + 1]
    /\ Goto(p, "rp_delete")
    /\ UNCHANGED <<store, now, nOps, trace>>

\* await presence.adelete()
RpDeleteAsync(p) ==
    /\ IsAsync(p)
    /\ task[p].pc = "rp_delete"
    /\ LET f == task[p]
           gone == {x \in presences : x.id = f.pres.id} IN
       /\ presences' = presences \ gone
       /\ IF gone # {}
          THEN Log("delete", f.r, f.pres.channel_name, f.pres.id)
          ELSE UNCHANGED trace
    /\ Goto(p, "rp_broadcast")
    /\ UNCHANGED <<rooms, nextRoomId, nextPresenceId, groups, calls, now, nOps>>

\* self.broadcast_changed(removed=presence); leave_all_async goes on with its loop.
RpBroadcastAsync(p) ==
    /\ IsAsync(p)
    /\ task[p].pc = "rp_broadcast"
    /\ LET f == task[p] IN
       BroadcastChanged("removed", f.r, f.pres.channel_name, f.pres.id, Len(Receivers))
    /\ IF task[p].op = "leave_all"
       THEN task' = [task EXCEPT ![p].pc = "la_next", ![p].r = NoRoom,
                                 ![p].pres = NoPresence]
       ELSE task' = [task EXCEPT ![p] = Return(@, "ok")]
    /\ UNCHANGED <<store, groups, calls, now, nOps>>

\* leave_all_async: async for presence in self.select_related("room", "user")
\* .filter(channel_name=channel_name): the query.
LaQueryAsync(p) ==
    /\ IsAsync(p)
    /\ task[p].pc = "leave_all"
    /\ task' = [task EXCEPT ![p].pc = "la_next",
                  ![p].todo = {[pres |-> x, r |-> RoomById(x.room)] :
                                 x \in {y \in presences : y.channel_name = task[p].ch}}]
    /\ UNCHANGED <<store, groups, calls, now, nOps, trace>>

\* ... await room.remove_presence_async(presence=presence), for the next presence.
LaNextAsync(p) ==
    /\ IsAsync(p)
    /\ task[p].pc = "la_next"
    /\ IF task[p].todo = {}
       THEN task' = [task EXCEPT ![p] = Return(@, "ok")]
       ELSE \E e \in task[p].todo :
              task' = [task EXCEPT ![p].pc = "rp_discard", ![p].r = e.r,
                                   ![p].pres = e.pres, ![p].todo = @ \ {e}]
    /\ UNCHANGED <<store, groups, calls, now, nOps, trace>>

\* touch_async: await self.filter(channel_name=channel_name).aupdate(last_seen=now())
TouchAsync(p) ==
    /\ IsAsync(p)
    /\ task[p].pc = "touch"
    /\ LET hit == Touched(task[p].ch) IN
       presences' = (presences \ hit) \cup {[x EXCEPT !.last_seen = now] : x \in hit}
    /\ task' = [task EXCEPT ![p] = Return(@, "ok")]
    /\ UNCHANGED <<rooms, nextRoomId, nextPresenceId, groups, calls, now, nOps, trace>>

\* prune_presences_async: async for room in Room.objects.all()
PpQueryAsync(p) ==
    /\ IsAsync(p)
    /\ task[p].pc = "prune_presences"
    /\ task' = [task EXCEPT ![p].pc = "pp_next", ![p].todo = rooms]
    /\ UNCHANGED <<store, groups, calls, now, nOps, trace>>

\* Room.prune_presences_async: await Presence.objects.filter(room=self,
\* last_seen__lt=now() - timedelta(seconds=age_in_seconds)).adelete(), of the next room.
PpDeleteAsync(p) ==
    /\ IsAsync(p)
    /\ task[p].pc = "pp_next"
    /\ IF task[p].todo = {}
       THEN /\ task' = [task EXCEPT ![p] = Return(@, "ok")]
            /\ UNCHANGED <<presences, trace>>
       ELSE \E r \in task[p].todo :
              LET gone == Stale(r.id, task[p].age) IN
              /\ presences' = presences \ gone
              /\ IF Cardinality(gone) > 0
                 THEN /\ task' = [task EXCEPT ![p].pc = "pp_broadcast", ![p].r = r,
                                              ![p].todo = @ \ {r}]
                      /\ Log("bulk_delete", r, None, 0)
                 ELSE /\ task' = [task EXCEPT ![p].todo = @ \ {r}]
                      /\ UNCHANGED trace
    /\ UNCHANGED <<rooms, nextRoomId, nextPresenceId, groups, calls, now, nOps>>

\* if num_deleted > 0: self.broadcast_changed(bulk_change=True)
PpBroadcastAsync(p) ==
    /\ IsAsync(p)
    /\ task[p].pc = "pp_broadcast"
    /\ BroadcastChanged("bulk", task[p].r, None, 0, Len(Receivers))
    /\ task' = [task EXCEPT ![p].pc = "pp_next", ![p].r = NoRoom]
    /\ UNCHANGED <<store, groups, calls, now, nOps>>

\* prune_rooms_async: await Room.objects.filter(presence__isnull=True).adelete(): the
\* rows are selected ...
PrCollectAsync(p) ==
    /\ IsAsync(p)
    /\ task[p].pc = "prune_rooms"
    /\ task' = [task EXCEPT ![p].pc = "pr_delete", ![p].todo = EmptyRooms]
    /\ UNCHANGED <<store, groups, calls, now, nOps, trace>>

\* ... and deleted by primary key, with the presences that refer to them.
PrDeleteAsync(p) ==
    /\ IsAsync(p)
    /\ task[p].pc = "pr_delete"
    /\ LET ids == {r.id : r \in task[p].todo} IN
       /\ presences' = {x \in presences : x.room \notin ids}
       /\ rooms' = {r \in rooms : r.id \notin ids}
    /\ task' = [task EXCEPT ![p] = Return(@, "ok")]
    /\ UNCHANGED <<nextRoomId, nextPresenceId, groups, calls, now, nOps, trace>>

StepsAsync(p) ==
    \/ AddGetRoomAsync(p)
    \/ AddCreateRoomAsync(p)
    \/ AddRegetRoomAsync(p)
    \/ ApGetAsync(p)
    \/ ApCreateAsync(p)
    \/ ApRegetAsync(p)
    \/ ApGroupAddAsync(p)
    \/ ApBroadcastAsync(p)
    \/ RemoveGetRoomAsync(p)
    \/ RpGetAsync(p)
    \/ RpDiscardAsync(p)
    \/ RpDeleteAsync(p)
    \/ RpBroadcastAsync(p)
    \/ LaQueryAsync(p)
    \/ LaNextAsync(p)
    \/ TouchAsync(p)
    \/ PpQueryAsync(p)
    \/ PpDeleteAsync(p)
    \/ PpBroadcastAsync(p)
    \/ PrCollectAsync(p)
    \/ PrDeleteAsync(p)

\* ------------------------------------------------------- transport failures
\* A channel-layer call that raised: the call made for channel ch of room r, on behalf
\* of Presence pid.
TransportFailed(t, r, ch, pid) ==
    trace' = [trace EXCEPT ![r.channel_name] = Append(@, Entry(t, r, ch, pid, {}))]

\* Faulty variant of ApGroupAddFail: the INSERT is undone when group_add raises.
ApGroupAddFailRollback(p) ==
    /\ task[p].pc = "ap_group_add"
    /\ LET f == task[p] IN
       /\ presences' = {x \in presences : x.id # f.pres.id}
       /\ calls' = [calls EXCEPT ![<<f.r.channel_name, f.ch>>].add = @ + 1]
       /\ TransportFailed("add_failed", f.r, f.ch, f.pres.id)
    /\ task' = [task EXCEPT ![p] = Return(@, "TransportError")]
    /\ UNCHANGED <<rooms, nextRoomId, nextPresenceId, groups, now, nOps>>

\* async_to_sync(channel_layer.group_add)(...) raises: nothing catches it, so it leaves
\* add_presence and add before broadcast_changed; the layer may or may not have
\* subscribed the channel before it raised.
ApGroupAddFail(p) ==
    /\ task[p].pc = "ap_group_add"
    /\ LET f == task[p] IN
       /\ \E applied \in BOOLEAN :
            groups' = IF applied THEN groups \cup {<<f.r.channel_name, f.ch>>} ELSE groups
       /\ calls' = [calls EXCEPT ![<<f.r.channel_name, f.ch>>].add = @ + 1]
       /\ TransportFailed("add_failed", f.r, f.ch, f.pres.id)
    /\ task' = [task EXCEPT ![p] = Return(@, "TransportError")]
    /\ UNCHANGED <<store, now, nOps>>

\* Faulty variant of RpDiscardFail: the exception is swallowed and remove_presence goes
\* on to delete the row.
RpDiscardFailSwallowed(p) ==
    /\ task[p].pc = "rp_discard"
    /\ LET f == task[p] IN
       /\ calls' = [calls EXCEPT ![<<f.r.channel_name, f.pres.channel_name>>].discard = @ + 1]
       /\ TransportFailed("discard_failed", f.r, f.pres.channel_name, f.pres.id)
    /\ Goto(p, "rp_delete")
    /\ UNCHANGED <<store, groups, now, nOps>>

\* async_to_sync(channel_layer.group_discard)(...) raises: it leaves remove_presence
\* (and remove, or leave_all's loop) before presence.delete() and broadcast_changed.
RpDiscardFail(p) ==
    /\ task[p].pc = "rp_discard"
    /\ LET f == task[p] IN
       /\ \E applied \in BOOLEAN :
            groups' = IF applied THEN groups \ {<<f.r.channel_name, f.pres.channel_name>>}
                      ELSE groups
       /\ calls' = [calls EXCEPT ![<<f.r.channel_name, f.pres.channel_name>>].discard = @ + 1]
       /\ TransportFailed("discard_failed", f.r, f.pres.channel_name, f.pres.id)
    /\ task' = [task EXCEPT ![p] = Return(@, "TransportError")]
    /\ UNCHANGED <<store, now, nOps>>

TransportFailSteps(p) == ApGroupAddFail(p) \/ RpDiscardFail(p)

\* ------------------------------------------------------------------ retries
\* Where a call may be abandoned by its caller's crash: add after the INSERT (before
\* group_add, or before broadcast_changed), remove after group_discard (before the
\* delete, or before broadcast_changed), Room.prune_presences after the delete (before
\* broadcast_changed).
RetryPoints(op) ==
    CASE op = "add" -> {"ap_group_add", "ap_broadcast"}
      [] op = "remove" -> {"rp_delete", "rp_broadcast"}
      [] op = "prune_presences" -> {"pp_broadcast"}
      [] OTHER -> {}

\* The call made again with the arguments of the abandoned call f (a
\* Room.prune_presences is called again on its room).  In flight, res tells how the call
\* came about: "retry" after the store was changed, "redo" after group_discard and
\* before the delete.
Restart(f) ==
    [IdleFrame EXCEPT
       !.pc = IF f.op = "prune_presences" THEN "pp_next" ELSE f.op,
       !.todo = IF f.op = "prune_presences" THEN {f.r} ELSE {},
       !.op = f.op, !.room = f.room, !.ch = f.ch, !.user = f.user, !.age = f.age,
       !.res = IF f.pc = "rp_delete" THEN "redo" ELSE "retry"]

\* The caller's process died at one of these points, and the call is made again while
\* nothing else runs.
Retry(p) ==
    /\ \A q \in Procs \ {p} : task[q].pc = "done"
    /\ nOps < MaxOps
    /\ task[p].pc \in RetryPoints(task[p].op)
    /\ nOps' = nOps + 1
    /\ task' = [task EXCEPT ![p] = Restart(@)]
    /\ UNCHANGED <<store, groups, calls, now, trace>>

\* The caller's process died after broadcast_changed and before the call returned, and
\* the call is made again while nothing else runs.
RetryAfterEvent(p) ==
    /\ \A q \in Procs \ {p} : task[q].pc = "done"
    /\ nOps < MaxOps
    /\ task[p].pc \in RetryPoints(task[p].op) \cap {"ap_broadcast", "rp_broadcast", "pp_broadcast"}
    /\ nOps' = nOps + 1
    /\ LET f == task[p] IN
       CASE f.op = "add" -> BroadcastChanged("added", f.r, f.ch, f.pres.id, Len(Receivers))
         [] f.op = "remove" ->
              BroadcastChanged("removed", f.r, f.pres.channel_name, f.pres.id, Len(Receivers))
         [] f.op = "prune_presences" -> BroadcastChanged("bulk", f.r, None, 0, Len(Receivers))
    /\ task' = [task EXCEPT ![p] = Restart(@)]
    /\ UNCHANGED <<store, groups, calls, now>>

\* Is a call that was made again in flight?
Retrying == \E p \in Procs : task[p].pc # "done" /\ task[p].res \in {"retry", "redo"}

\* -------------------------------------------------------------------- time
Tick ==
    /\ \E d \in Elapsed : now + d <= MaxTime /\ now' = now + d
    /\ UNCHANGED <<store, groups, calls, task, nOps, trace>>

\* ----------------------------------------------------------- specifications
AnyCall(p) ==
    \/ JoinCall(p)
    \/ LeaveCall(p)
    \/ LeaveAllCall(p)
    \/ TouchCall(p)
    \/ PruneCall(p)
    \/ PruneRoomsCall(p)

\* The steps a call can take when no other call is in flight.
SeqSteps(p) ==
    \/ JoinSteps(p)
    \/ LeaveSteps(p)
    \/ RemovePresenceSteps(p)
    \/ LeaveAllSteps(p)
    \/ Touch(p)
    \/ PruneSteps(p)
    \/ PruneRoomsSteps(p)

\* Room's get_or_create loses the INSERT only to a concurrent call.
Steps(p) == SeqSteps(p) \/ AddRegetRoom(p)

Next == Tick \/ \E p \in Procs : AnyCall(p) \/ Steps(p)

\* Tasks call every operation, concurrently; receivers do not raise.
Spec == Init /\ [][Next]_vars

AllDone == \A p \in Procs : task[p].pc = "done"

NextSeq == Tick \/ \E p \in Procs : (AllDone /\ AnyCall(p)) \/ SeqSteps(p)

\* One call at a time: a call starts when every other has returned.
SpecSeq == Init /\ [][NextSeq]_vars

NextJoin == \E p \in Procs : JoinCall(p) \/ JoinSteps(p) \/ AddRegetRoom(p)

\* Only RoomManager.add is called.
SpecJoin == Init /\ [][NextJoin]_vars

NextJoinPrune ==
    \E p \in Procs :
        \/ JoinCall(p)
        \/ PruneRoomsCall(p)
        \/ JoinSteps(p)
        \/ AddRegetRoom(p)
        \/ PruneRoomsSteps(p)

\* Only RoomManager.add and RoomManager.prune_rooms are called.
SpecJoinPrune == Init /\ [][NextJoinPrune]_vars

RaiseSteps(p) == ApBroadcastRaise(p) \/ RpBroadcastRaise(p) \/ PpBroadcastRaise(p)

NextListener ==
    \/ Tick
    \/ \E p \in Procs :
        \/ JoinCall(p)
        \/ LeaveCall(p)
        \/ LeaveAllCall(p)
        \/ PruneCall(p)
        \/ JoinSteps(p)
        \/ AddRegetRoom(p)
        \/ LeaveSteps(p)
        \/ RemovePresenceSteps(p)
        \/ LeaveAllSteps(p)
        \/ PruneSteps(p)
        \/ RaiseSteps(p)

\* add, remove, leave_all and prune_presences, with receivers that may raise.
SpecListener == Init /\ [][NextListener]_vars

NextTransport ==
    \E p \in Procs :
        \/ JoinCall(p)
        \/ LeaveCall(p)
        \/ JoinSteps(p)
        \/ AddRegetRoom(p)
        \/ LeaveSteps(p)
        \/ RemovePresenceSteps(p)
        \/ TransportFailSteps(p)

\* add and remove, with channel-layer calls that may raise.
SpecTransport == Init /\ [][NextTransport]_vars

\* Is a call of operation op for channel ch in flight?
InFlight(op, ch) ==
    \E q \in Procs : task[q].pc # "done" /\ task[q].op = op /\ task[q].ch = ch

NextLeaveAll ==
    \/ Tick
    \/ \E p \in Procs :
        \/ \E rn \in RoomNames, ch \in Channels, u \in UserInputs :
             ~InFlight("leave_all", ch) /\ Call(p, "add", rn, ch, u, <<>>)
        \/ \E ch \in Channels :
             ~InFlight("add", ch) /\ Call(p, "leave_all", None, ch, None, <<>>)
        \/ LeaveCall(p)
        \/ PruneCall(p)
        \/ JoinSteps(p)
        \/ AddRegetRoom(p)
        \/ LeaveSteps(p)
        \/ RemovePresenceSteps(p)
        \/ LeaveAllSteps(p)
        \/ PruneSteps(p)

\* add, remove, leave_all and prune_presences run concurrently, but no add for a channel
\* overlaps a leave_all for that channel.
SpecLeaveAll == Init /\ [][NextLeaveAll]_vars

NextMembership ==
    \/ Tick
    \/ \E p \in Procs :
        \/ JoinCall(p)
        \/ LeaveCall(p)
        \/ LeaveAllCall(p)
        \/ PruneCall(p)
        \/ JoinSteps(p)
        \/ AddRegetRoom(p)
        \/ LeaveSteps(p)
        \/ RemovePresenceSteps(p)
        \/ LeaveAllSteps(p)
        \/ PruneSteps(p)

\* add, remove, leave_all and prune_presences, concurrently; no channel-layer call and
\* no receiver raises.
SpecMembership == Init /\ [][NextMembership]_vars

NextRetry ==
    \/ ~Retrying /\ Tick
    \/ \E p \in Procs :
        \/ AllDone /\ (JoinCall(p) \/ LeaveCall(p) \/ PruneCall(p))
        \/ Retry(p)
        \/ RetryAfterEvent(p)
        \/ JoinSteps(p)
        \/ LeaveSteps(p)
        \/ RemovePresenceSteps(p)
        \/ PruneSteps(p)

\* add, remove and prune_presences, one call at a time; a call may be abandoned after
\* its first effect, before it returns, and made again at once.
SpecRetry == Init /\ [][NextRetry]_vars

\* The tasks that call the non-blocking forms; the others call the blocking forms.
AsyncProcs == {"t2"}

NextMixed ==
    \/ Tick
    \/ \E p \in Procs \ AsyncProcs : AnyCall(p) \/ Steps(p)
    \/ \E p \in AsyncProcs : CallAsync(p) \/ StepsAsync(p) \/ Steps(p)

\* One task calls every operation in its blocking form, the other in its non-blocking
\* form, concurrently.  A call of a non-blocking form is offered the blocking form's
\* steps too, so that a step that only one of the forms can take shows.
SpecMixed == Init /\ [][NextMixed]_vars

\* The periodic drivers: one task keeps calling prune_presences, the other prune_rooms.
StaleSweeper == "t1"

\* A driver starts its sweep again; sweeps are not counted as operations.
SweepCall(p) ==
    /\ task[p].pc = "done"
    /\ \E age \in AgeInputs :
         task' = [task EXCEPT ![p] =
                    IF p = StaleSweeper
                    THEN [IdleFrame EXCEPT !.pc = "prune_presences",
                                           !.op = "prune_presences", !.age = age]
                    ELSE [IdleFrame EXCEPT !.pc = "prune_rooms", !.op = "prune_rooms"]]
    /\ UNCHANGED <<store, groups, calls, now, nOps, trace>>

\* The connections join before the clock moves (here from the task that later drives the
\* stale sweep), and then are silent: no touch, no remove, no leave_all.
JoinCallEarly(p) ==
    /\ now = 0
    /\ p = StaleSweeper
    /\ \E rn \in RoomNames, ch \in Channels : Call(p, "add", rn, ch, None, <<>>)

\* Time advances, up to MaxTime, once the connections' calls have returned.
TickSweep ==
    /\ ~ \E p \in Procs : task[p].pc # "done" /\ task[p].op = "add"
    /\ now < MaxTime
    /\ \E d \in Elapsed : now' = IF now + d > MaxTime THEN MaxTime ELSE now + d
    /\ UNCHANGED <<store, groups, calls, task, nOps, trace>>

\* (One task joins, so Room's get_or_create never loses its INSERT here.)
SweepSteps(p) ==
    \/ JoinSteps(p)
    \/ PruneSteps(p)
    \/ PruneRoomsSteps(p)

NextSweep == TickSweep \/ \E p \in Procs : JoinCallEarly(p) \/ SweepCall(p) \/ SweepSteps(p)

\* Connections that join and then die silently, with the two sweeps run for ever: time
\* advances, every call in flight goes on, and each driver calls its sweep again when
\* the last one has returned.
SpecSweep ==
    /\ Init
    /\ [][NextSweep]_vars
    /\ WF_vars(TickSweep)
    /\ \A p \in Procs : WF_vars(SweepCall(p)) /\ WF_vars(SweepSteps(p))

\* ------------------------------------------------------------ observations
\* The Presence rows of channel ch in the room named rn.
Rows(rn, ch) ==
    {x \in presences : x.channel_name = ch /\ \E r \in RoomsNamed(rn) : r.id = x.room}

\* How many entries t about channel ch the stream of room rn holds.
CountT(rn, t, ch) ==
    Cardinality({i \in DOMAIN trace[rn] : trace[rn][i].t = t /\ trace[rn][i].ch = ch})

\* The rows of the user model: the users that can be authenticated.
Users == {"alice"}

\* Room.get_users: User.objects.filter(presence__room=self).distinct(), the rows of the
\* user model that a Presence row of the room refers to.
get_users(rid) == {u \in Users : \E x \in presences : x.user = u /\ x.room = rid}

\* Room.get_anonymous_count: self.presence_set.filter(user=None).count()
get_anonymous_count(rid) == Cardinality({x \in presences : x.room = rid /\ x.user = None})

\* ------------------------------------------------------------------ claims
\* C1: whatever the interleaving of concurrent add calls for one (room, channel) -
\* with the same user, and with different users too - once all calls have returned
\* the pair has exactly one Presence row, group_add was called exactly once for it and
\* exactly one presence_changed with added= was sent for it.
C1_ConcurrentJoinOnce ==
    AllDone =>
        /\ \A p \in Procs :
             task[p].op = "add" =>
                /\ Cardinality(Rows(task[p].room, task[p].ch)) = 1
                /\ calls[<<task[p].room, task[p].ch>>].add = 1
                /\ CountT(task[p].room, "added", task[p].ch) = 1
        /\ \A rn \in RoomNames, ch \in Channels :
             /\ Cardinality(Rows(rn, ch)) <= 1
             /\ calls[<<rn, ch>>].add = Cardinality(Rows(rn, ch))
             /\ CountT(rn, "added", ch) = Cardinality(Rows(rn, ch))

\* Two add calls with the same room, channel and user overlapped: one created the row,
\* the other lost the INSERT and found the row; both returned.
C1_Witness ==
    /\ AllDone
    /\ \E p, q \in Procs :
         /\ p # q
         /\ task[p].op = "add" /\ task[q].op = "add"
         /\ task[p].room = task[q].room /\ task[p].ch = task[q].ch
         /\ task[p].user = task[q].user
         /\ task[p].created /\ ~task[p].raced
         /\ task[q].raced /\ ~task[q].created
         /\ task[p].res = "ok" /\ task[q].res = "ok"

\* C2: in every reachable state, whatever calls interleave and whatever users were
\* passed to add, no two Presence rows have the same room and channel_name.
C2_UniqueMembership ==
    \A x, y \in presences :
        (x.room = y.room /\ x.channel_name = y.channel_name) => x = y

\* An add call for a (room, channel) that holds a row of another user hit the
\* constraint.
C2_Witness ==
    \E p \in Procs :
        /\ task[p].op = "add" /\ task[p].pc = "done" /\ task[p].raced
        /\ \E x \in Rows(task[p].room, task[p].ch) : x.user # task[p].user

\* C3: room names are unique in every state, and when two add calls for the same room
\* name and different channels have returned (neither channel joined that room before
\* with another user), both returned normally and each channel has exactly one row in
\* the one room of that name, one group_add call and one added signal.
C3_ConcurrentRoomCreate ==
    /\ \A rn \in RoomNames : Cardinality(RoomsNamed(rn)) <= 1
    /\ AllDone =>
         \A p, q \in Procs :
            (/\ task[p].op = "add" /\ task[q].op = "add"
             /\ task[p].room = task[q].room /\ task[p].ch # task[q].ch
             /\ \A x \in Rows(task[p].room, task[p].ch) : x.user = task[p].user)
            => /\ task[p].res = "ok"
               /\ Cardinality(RoomsNamed(task[p].room)) = 1
               /\ Cardinality(Rows(task[p].room, task[p].ch)) = 1
               /\ calls[<<task[p].room, task[p].ch>>].add = 1
               /\ CountT(task[p].room, "added", task[p].ch) = 1

\* Two add calls for one new room name and two channels overlapped: one lost the
\* INSERT of the room; both created their row.
C3_Witness ==
    /\ AllDone
    /\ nOps = Cardinality(Procs)
    /\ \E p, q \in Procs :
         /\ task[p].op = "add" /\ task[q].op = "add"
         /\ task[p].room = task[q].room /\ task[p].ch # task[q].ch
         /\ task[p].created /\ task[q].created
         /\ task[q].raced /\ ~task[p].raced

\* C4: a step of a remove call's lookups (the room by name, the presence by room and
\* channel) taken when the channel has no Presence row in a room of that name changes no
\* Room, no Presence row and no subscription, calls no group_discard, sends no signal
\* and raises nothing; and with one call at a time group_discard was never called, and
\* removed never sent, more often for a (room, channel) than its rows were created:
\* the second of two remove calls adds no call and no signal.
C4_LeaveAbsentNoop ==
    [][/\ \A p \in Procs :
            (/\ task[p].op = "remove"
             /\ task[p].pc \in {"remove", "rp_get"}
             /\ Rows(task[p].room, task[p].ch) = {}
             /\ task'[p] # task[p])
            => /\ UNCHANGED <<rooms, presences, groups, calls, trace>>
               /\ task'[p].res = "ok"
               /\ task'[p].pc = (IF task[p].pc = "remove" /\ RoomsNamed(task[p].room) # {}
                                 THEN "rp_get" ELSE "done")
       /\ \A rn \in RoomNames, ch \in Channels :
            /\ calls'[<<rn, ch>>].discard <= CountT(rn, "create", ch)'
            /\ CountT(rn, "removed", ch)' <= calls'[<<rn, ch>>].discard
            /\ AllDone' => CountT(rn, "removed", ch)' = calls'[<<rn, ch>>].discard
      ]_vars

\* remove was called twice for a (room, channel) that had joined once: the row is gone,
\* there was one group_discard and one removed signal, and both calls returned.
C4_Witness ==
    /\ AllDone
    /\ \E p, q \in Procs :
         /\ p # q
         /\ task[p].op = "remove" /\ task[q].op = "remove"
         /\ task[p].room = task[q].room /\ task[p].ch = task[q].ch
         /\ task[p].res = "ok" /\ task[q].res = "ok"
         /\ Rows(task[p].room, task[p].ch) = {}
         /\ RoomsNamed(task[p].room) # {}
         /\ CountT(task[p].room, "create", task[p].ch) = 1
         /\ calls[<<task[p].room, task[p].ch>>].discard = 1
         /\ CountT(task[p].room, "removed", task[p].ch) = 1

\* C5: the step of touch sets last_seen to now on every Presence row of the channel, in
\* every room, and on no other row; it leaves the rooms, the set of rows and their
\* users, the subscriptions, the channel-layer calls and the signals as they were, and
\* returns normally, with or without rows.
C5_TouchFrame ==
    [][\A p \in Procs :
          (task[p].pc = "touch" /\ task'[p] # task[p])
          => /\ presences' = {IF x.channel_name = task[p].ch
                              THEN [x EXCEPT !.last_seen = now] ELSE x : x \in presences}
             /\ UNCHANGED <<rooms, groups, calls, trace, now>>
             /\ task'[p].pc = "done" /\ task'[p].res = "ok"
      ]_vars

\* touch returned for a channel whose row it moved to now, next to a row of another
\* channel that kept its older last_seen.
C5_Witness ==
    \E p \in Procs :
        /\ task[p].op = "touch" /\ task[p].pc = "done"
        /\ \E x, y \in presences :
             /\ x.channel_name = task[p].ch /\ x.last_seen = now
             /\ y.channel_name # task[p].ch /\ y.last_seen < now
             /\ CountT(RoomById(x.room).channel_name, "create", x.channel_name) = 1

\* C6: the delete of Room.prune_presences on a room removes exactly the rows of that
\* room with last_seen < now - age (age 60 when None), and keeps the rows with
\* last_seen >= now - age and every row of other rooms; when it removed a row the
\* call goes on to send exactly one presence_changed with bulk_change, to that room, and
\* when it removed none it sends nothing.
C6_PruneStaleExact ==
    [][/\ \A p \in Procs :
          /\ (task[p].pc = "pp_next" /\ task[p].todo # {} /\ task'[p] # task[p])
             => LET r == CHOOSE r \in task[p].todo : r \notin task'[p].todo
                    age == IF task[p].age = <<>> THEN 60 ELSE task[p].age[1]
                    gone == {x \in presences : x.room = r.id /\ x.last_seen < now - age}
                IN  /\ presences' = presences \ gone
                    /\ \A x \in presences :
                         (x.room # r.id \/ x.last_seen >= now - age) => x \in presences'
                    /\ UNCHANGED <<rooms, groups, calls>>
                    /\ \A rn \in RoomNames :
                         CountT(rn, "bulk", None)' = CountT(rn, "bulk", None)
                    /\ IF gone # {}
                       THEN task'[p].pc = "pp_broadcast" /\ task'[p].r = r
                       ELSE task'[p].pc = "pp_next" /\ trace' = trace
          /\ (task[p].pc = "pp_broadcast" /\ task'[p] # task[p])
             => /\ trace' = [trace EXCEPT ![task[p].r.channel_name] =
                               Append(@, [t |-> "bulk", rid |-> task[p].r.id, ch |-> None,
                                          pid |-> 0, got |-> {"l1", "l2"}])]
                /\ UNCHANGED <<rooms, presences, groups, calls>>
                /\ task'[p].pc = "pp_next"
       /\ (\A p \in Procs : task[p].pc # "pp_broadcast" \/ task'[p] = task[p])
          => \A rn \in RoomNames : CountT(rn, "bulk", None)' = CountT(rn, "bulk", None)
      ]_vars

\* prune_presences with the default age returned after removing the stale row of a room
\* and keeping a row of that room that was seen since: one bulk_change signal was sent.
C6_Witness ==
    \E p \in Procs :
        /\ task[p].op = "prune_presences" /\ task[p].pc = "done" /\ task[p].age = <<>>
        /\ \E r \in rooms :
             /\ CountT(r.channel_name, "bulk", None) = 1
             /\ CountT(r.channel_name, "bulk_delete", None) = 1
             /\ \E x \in presences : x.room = r.id /\ x.last_seen >= now - 60

\* C7: a Room row is deleted only by the delete of prune_rooms and only when no
\* Presence row refers to it at that moment; every Presence row refers to a Room.
C7_RoomDeletedOnlyWhenEmpty ==
    [][/\ \A r \in rooms :
            r \notin rooms' =>
               /\ \E p \in Procs : task[p].pc = "pr_delete" /\ task'[p].pc = "done"
               /\ ~ \E x \in presences : x.room = r.id
       /\ \A x \in presences' : \E r \in rooms' : r.id = x.room
      ]_vars

\* C8: with only add and prune_rooms running, an add call that has returned (for a
\* channel with no row of another user in that room) returned normally, and a Room of
\* its name holds the channel's Presence row.
C8_JoinCommutesWithPruneRooms ==
    \A p \in Procs :
        (/\ task[p].op = "add" /\ task[p].pc = "done"
         /\ \A x \in Rows(task[p].room, task[p].ch) : x.user = task[p].user)
        => /\ task[p].res = "ok"
           /\ Rows(task[p].room, task[p].ch) # {}

\* The commits (their places in the stream of room rn) that caused the signal at place i.
CauseOf(rn, i) ==
    {k \in DOMAIN trace[rn] :
        /\ trace[rn][k].pid = trace[rn][i].pid
        /\ trace[rn][k].t = (IF trace[rn][i].t = "added" THEN "create" ELSE "delete")}

\* C9: in each room's stream the added and removed signals are sent in the order in
\* which the INSERT and DELETE that caused them committed.
C9_EventsInCommitOrder ==
    \A rn \in RoomNames :
        \A i, j \in DOMAIN trace[rn] :
            (/\ i < j
             /\ trace[rn][i].t \in {"added", "removed"}
             /\ trace[rn][j].t \in {"added", "removed"})
            => \A ki \in CauseOf(rn, i), kj \in CauseOf(rn, j) : ki <= kj

\* C10: no call ends with a receiver's exception, and every signal sent reached every
\* receiver.
C10_ListenerFailureContained ==
    /\ \A p \in Procs : task[p].pc = "done" => task[p].res # "ListenerError"
    /\ \A rn \in RoomNames :
         \A i \in DOMAIN trace[rn] :
            trace[rn][i].t \in {"added", "removed", "bulk"}
            => trace[rn][i].got = {Receivers[k] : k \in DOMAIN Receivers}

\* The places in the stream of room rn of the entries t about Presence pid.
Places(rn, t, pid) ==
    {i \in DOMAIN trace[rn] : trace[rn][i].t = t /\ trace[rn][i].pid = pid}

\* The last entry of the stream of room rn after the step, when the step added one.
Added(rn) == IF Len(trace'[rn]) > Len(trace[rn]) THEN {trace'[rn][Len(trace'[rn])]} ELSE {}

\* C11: the step in which group_add raises, in an add call that created its Presence
\* row, ends the call with the transport's exception, changes no Room and no Presence
\* row (the created row and its room stay as they are) and sends no signal, and no
\* added signal is ever sent for that row; the step in which group_discard raises in a
\* remove call ends the call with the exception, deletes no row (the found row is still
\* there if it was) and sends no signal.
C11_TransportFailureSurfaced ==
    [][/\ \A p \in Procs :
            /\ (/\ task[p].pc = "ap_group_add" /\ task'[p] # task[p]
                /\ \E e \in Added(task[p].r.channel_name) :
                     e.t = "add_failed" /\ e.pid = task[p].pres.id)
               => /\ task[p].created
                  /\ task'[p].pc = "done" /\ task'[p].res = "TransportError"
                  /\ UNCHANGED <<rooms, presences>>
                  /\ (task[p].pres \in presences => task[p].pres \in presences')
                  /\ (task[p].r \in rooms => task[p].r \in rooms')
                  /\ \A rn \in RoomNames, ch \in Channels :
                       CountT(rn, "added", ch)' = CountT(rn, "added", ch)
            /\ (/\ task[p].pc = "rp_discard" /\ task'[p] # task[p]
                /\ \E e \in Added(task[p].r.channel_name) :
                     e.t = "discard_failed" /\ e.pid = task[p].pres.id)
               => /\ task'[p].pc = "done" /\ task'[p].res = "TransportError"
                  /\ UNCHANGED <<rooms, presences>>
                  /\ (task[p].pres \in presences => task[p].pres \in presences')
                  /\ \A rn \in RoomNames, ch \in Channels :
                       CountT(rn, "removed", ch)' = CountT(rn, "removed", ch)
       /\ \A rn \in RoomNames :
            \A i \in DOMAIN trace'[rn] :
               trace'[rn][i].t = "add_failed"
               => ~ \E j \in DOMAIN trace'[rn] :
                      trace'[rn][j].t = "added" /\ trace'[rn][j].pid = trace'[rn][i].pid
      ]_vars

\* An add call ended with the transport's exception and its row is in the store with no
\* added signal, and a remove call ended with the transport's exception and the row it
\* found is still in the store, with no removed signal.
C11_Witness ==
    \E p, q \in Procs :
        /\ task[p].op = "add" /\ task[p].pc = "done" /\ task[p].res = "TransportError"
        /\ task[p].created
        /\ task[q].op = "remove" /\ task[q].pc = "done" /\ task[q].res = "TransportError"
        /\ \E x \in presences, y \in presences :
             /\ Places(task[p].room, "add_failed", x.id) # {}
             /\ Places(task[p].room, "added", x.id) = {}
             /\ Places(task[q].room, "discard_failed", y.id) # {}
             /\ Places(task[q].room, "removed", y.id) = {}
             /\ \E r \in RoomsNamed(task[p].room) : r.id = x.room

\* C12: when no add for the channel overlaps it, leave_all(channel) loads every Presence
\* row of the channel, in every room, and for each of them, once, calls
\* group_discard(room, channel), deletes that row and no other, and sends one removed
\* signal to that room; while it runs every remaining row of the channel is still to be
\* handled, so when it returns no row of the channel exists; no step of it changes a
\* Room or a row of another channel, a room whose last row it deleted has no users,
\* and with no rows it calls nothing, sends nothing and returns normally.
C12_LeaveAllRemovesAll ==
    [][/\ \A p \in Procs :
            (task[p].op = "leave_all" /\ task[p].pc # "done" /\ task'[p] # task[p])
            => LET f == task[p]
                   k == <<f.r.channel_name, f.ch>>
               IN
               /\ rooms' = rooms
               /\ \A x \in presences : x.channel_name # f.ch => x \in presences'
               /\ presences' \subseteq presences
               /\ CASE f.pc = "leave_all" ->
                         /\ task'[p].todo =
                              {[pres |-> x, r |-> CHOOSE r \in rooms : r.id = x.room] :
                                 x \in {y \in presences : y.channel_name = f.ch}}
                         /\ task'[p].pc = "la_next"
                         /\ UNCHANGED <<presences, groups, calls, trace>>
                    [] f.pc = "la_next" ->
                         /\ UNCHANGED <<presences, groups, calls, trace>>
                         /\ IF f.todo = {}
                            THEN /\ task'[p].pc = "done" /\ task'[p].res = "ok"
                                 /\ ~ \E x \in presences : x.channel_name = f.ch
                            ELSE \E e \in f.todo :
                                   /\ task'[p].todo = f.todo \ {e}
                                   /\ task'[p].pc = "rp_discard"
                                   /\ task'[p].r = e.r /\ task'[p].pres = e.pres
                    [] f.pc = "rp_discard" ->
                         /\ groups' = groups \ {k}
                         /\ calls' = [calls EXCEPT ![k].discard = @ + 1]
                         /\ UNCHANGED <<presences, trace>>
                         /\ task'[p].pc = "rp_delete" /\ task'[p].todo = f.todo
                    [] f.pc = "rp_delete" ->
                         /\ presences' = {x \in presences : x.id # f.pres.id}
                         /\ UNCHANGED <<groups, calls>>
                         /\ \A rn \in RoomNames, ch \in Channels :
                              CountT(rn, "removed", ch)' = CountT(rn, "removed", ch)
                         /\ \A rid \in {f.r.id} :
                              (\A x \in presences : x.room = rid => x.id = f.pres.id)
                              => get_users(rid)' = {}
                         /\ task'[p].pc = "rp_broadcast" /\ task'[p].todo = f.todo
                    [] f.pc = "rp_broadcast" ->
                         /\ trace' = [trace EXCEPT ![f.r.channel_name] =
                                        Append(@, [t |-> "removed", rid |-> f.r.id, ch |-> f.ch,
                                                   pid |-> f.pres.id, got |-> {"l1", "l2"}])]
                         /\ UNCHANGED <<presences, groups, calls>>
                         /\ task'[p].pc = "la_next" /\ task'[p].todo = f.todo
       /\ \A p \in Procs :
            (task'[p].op = "leave_all" /\ task'[p].pc \notin {"done", "leave_all"})
            => \A x \in presences' :
                  x.channel_name = task'[p].ch
                  => \/ \E e \in task'[p].todo : e.pres.id = x.id
                     \/ /\ task'[p].pc \in {"rp_discard", "rp_delete"}
                        /\ task'[p].pres.id = x.id
      ]_vars

\* leave_all returned for a channel that had joined both rooms: no row of the channel
\* is left, each room saw one group_discard and one removed signal for it, and the other
\* subscriptions are gone too.
C12_Witness ==
    \E p \in Procs :
        /\ task[p].op = "leave_all" /\ task[p].pc = "done" /\ task[p].res = "ok"
        /\ ~ \E x \in presences : x.channel_name = task[p].ch
        /\ \A rn \in RoomNames :
             /\ CountT(rn, "create", task[p].ch) = 1
             /\ calls[<<rn, task[p].ch>>].discard = 1
             /\ CountT(rn, "removed", task[p].ch) = 1
             /\ <<rn, task[p].ch>> \notin groups
             /\ \A r \in RoomsNamed(rn) : get_users(r.id) = {}

\* C13: with only add running, no add call ends with the store's IntegrityError, whatever
\* user it passes for a (room, channel) that already has a row, and a (room, channel)
\* never sees a second group_add or a second added signal.
C13_RejoinNeverRaises ==
    /\ \A p \in Procs :
         (task[p].op = "add" /\ task[p].pc = "done") => task[p].res = "ok"
    /\ \A rn \in RoomNames, ch \in Channels :
         calls[<<rn, ch>>].add <= 1 /\ CountT(rn, "added", ch) <= 1

\* C14: once every add, remove, leave_all and prune_presences call has returned, a
\* channel is subscribed to a room's group if and only if the room holds a Presence row
\* of the channel.
C14_TransportMirrorsStore ==
    AllDone =>
        \A rn \in RoomNames, ch \in Channels :
            (<<rn, ch>> \in groups) <=> (Rows(rn, ch) # {})

\* C15 as stated: a call of add, remove or prune_presences made again after the first
\* one was abandoned at any point after its group call or store change changes no row,
\* makes no channel-layer call and sends no signal.
C15_RetryNoDuplicate ==
    [][\A p \in Procs :
          (/\ task[p].res \in {"retry", "redo"}
           /\ task[p].pc # "done" /\ task'[p] # task[p])
          => UNCHANGED <<rooms, presences, groups, calls, trace>>
      ]_vars

\* C15, amended: a call of add, remove or prune_presences made again after the first one
\* was abandoned at any point after its store change (INSERT, DELETE) changes no row,
\* makes no channel-layer call and sends no signal, and returns as the first would have;
\* a remove abandoned between group_discard and the delete, made again, calls
\* group_discard once more, deletes the row and nothing else, and returns normally with
\* the row gone; no row ever has more added signals or group_add calls than INSERTs,
\* more removed signals than DELETEs or more bulk signals than bulk deletes, and
\* (room, channel) and room names stay unique.
C15_RetryAfterCommitIsNoop ==
    [][/\ \A p \in Procs :
            (task[p].res = "retry" /\ task[p].pc # "done" /\ task'[p] # task[p])
            => UNCHANGED <<rooms, presences, groups, calls, trace>>
       /\ \A p \in Procs :
            (task[p].res = "redo" /\ task[p].pc # "done" /\ task'[p] # task[p])
            => /\ rooms' = rooms
               /\ presences' \subseteq presences
               /\ \A x \in presences :
                    (x.channel_name # task[p].ch \/ x \notin Rows(task[p].room, task[p].ch))
                    => x \in presences'
               /\ \A k \in RoomNames \X Channels :
                    /\ calls'[k].add = calls[k].add
                    /\ calls'[k].discard =
                         calls[k].discard
                           + (IF task[p].pc = "rp_discard" /\ k = <<task[p].room, task[p].ch>>
                              THEN 1 ELSE 0)
               /\ task'[p].pc = "done"
                  => /\ task'[p].res = "ok"
                     /\ \A rn \in {task[p].room}, ch \in {task[p].ch} : Rows(rn, ch)' = {}
       /\ \A rn \in RoomNames, ch \in Channels :
            /\ CountT(rn, "added", ch)' <= CountT(rn, "create", ch)'
            /\ calls'[<<rn, ch>>].add <= CountT(rn, "create", ch)'
            /\ CountT(rn, "removed", ch)' <= CountT(rn, "delete", ch)'
            /\ Cardinality(Rows(rn, ch))' <= 1
            /\ Cardinality(RoomsNamed(rn))' <= 1
       /\ \A rn \in RoomNames :
            CountT(rn, "bulk", None)' <= CountT(rn, "bulk_delete", None)'
      ]_vars

\* An add abandoned between the INSERT and group_add was made again and returned without
\* creating: the row is there, group_add was never called for it and no added signal
\* was sent.
C15_Witness ==
    /\ AllDone
    /\ \E p \in Procs :
         /\ task[p].op = "add" /\ task[p].res = "ok" /\ ~task[p].created
         /\ Cardinality(Rows(task[p].room, task[p].ch)) = 1
         /\ CountT(task[p].room, "create", task[p].ch) = 1
         /\ calls[<<task[p].room, task[p].ch>>].add = 0
         /\ CountT(task[p].room, "added", task[p].ch) = 0

\* C16: in every run that mixes the two forms, each step of a call of a non-blocking form
\* (a store read or write, a channel-layer call, a signal) is the step the blocking form
\* takes at that point from the same state, and the other way round: the same rows are
\* read and written, the same channel-layer call is made, the same signal is sent, and
\* the call goes on to the same next step or returns the same way.
C16_AsyncStepsAreSyncSteps ==
    [][\A p \in Procs :
          IsAsync(p) =>
             /\ AddGetRoomAsync(p) <=> AddGetRoom(p)
             /\ AddCreateRoomAsync(p) <=> AddCreateRoom(p)
             /\ AddRegetRoomAsync(p) <=> AddRegetRoom(p)
             /\ ApGetAsync(p) <=> ApGet(p)
             /\ ApCreateAsync(p) <=> ApCreate(p)
             /\ ApRegetAsync(p) <=> ApReget(p)
             /\ ApGroupAddAsync(p) <=> ApGroupAdd(p)
             /\ ApBroadcastAsync(p) <=> ApBroadcast(p)
             /\ RemoveGetRoomAsync(p) <=> RemoveGetRoom(p)
             /\ RpGetAsync(p) <=> RpGet(p)
             /\ RpDiscardAsync(p) <=> RpDiscard(p)
             /\ RpDeleteAsync(p) <=> RpDelete(p)
             /\ RpBroadcastAsync(p) <=> RpBroadcast(p)
             /\ LaQueryAsync(p) <=> LaQuery(p)
             /\ LaNextAsync(p) <=> LaNext(p)
             /\ TouchAsync(p) <=> Touch(p)
             /\ PpQueryAsync(p) <=> PpQuery(p)
             /\ PpDeleteAsync(p) <=> PpDelete(p)
             /\ PpBroadcastAsync(p) <=> PpBroadcast(p)
             /\ PrCollectAsync(p) <=> PrCollect(p)
             /\ PrDeleteAsync(p) <=> PrDelete(p)
      ]_vars

\* A leave_all_async call has removed a presence that an add call of the blocking form
\* created, and is about to return.
C16_Witness ==
    \E p, q \in Procs :
        /\ IsAsync(p) /\ task[p].op = "leave_all" /\ task[p].pc = "la_next"
        /\ task[p].todo = {}
        /\ task[q].op = "add" /\ task[q].pc = "done" /\ task[q].created
        /\ task[q].ch = task[p].ch
        /\ CountT(task[q].room, "removed", task[q].ch) = 1
        /\ calls[<<task[q].room, task[q].ch>>].discard = 1

\* C17: in every reachable state and for every room, get_anonymous_count is the number of
\* the room's Presence rows whose user is null, get_users is the set of the non-null
\* users of the room's rows (each once, however many rows refer to it), every row is
\* counted by exactly one of the two, and no row refers to a user that was not
\* authenticated: an add without user or with an unauthenticated one stored null.
C17_UsersAndAnonymousCount ==
    /\ \A r \in rooms :
         LET rows == {x \in presences : x.room = r.id} IN
         /\ get_anonymous_count(r.id) = Cardinality({x \in rows : x.user = None})
         /\ get_users(r.id) = {x.user : x \in rows} \ {None}
         /\ \A x \in rows : (x.user = None) <=> (x.user \notin get_users(r.id))
    /\ \A x \in presences : x.user # "anon"
    /\ \A p \in Procs : task[p].user # "anon"

\* After an add with an unauthenticated user for one channel and adds with an
\* authenticated user for the other channel, a room holds a row without user and a row
\* of the user (one anonymous, one user), and the other room a row of the same user.
C17_Witness ==
    /\ AllDone
    /\ \E r, o \in rooms :
        /\ r # o
        /\ get_anonymous_count(r.id) = 1
        /\ get_users(r.id) = {"alice"}
        /\ Cardinality({x \in presences : x.room = r.id}) = 2
        /\ get_anonymous_count(o.id) = 0
        /\ get_users(o.id) = {"alice"}

\* C18: whatever remove and leave_all calls overlap, a Presence row has at most one
\* removed signal, exactly one once the calls that deleted it have returned, and no
\* remove or leave_all call ends with an exception.
C18_ConcurrentRemovalOnce ==
    /\ \A rn \in RoomNames :
         \A i \in DOMAIN trace[rn] :
            /\ trace[rn][i].t = "removed"
               => Cardinality(Places(rn, "removed", trace[rn][i].pid)) = 1
            /\ (AllDone /\ trace[rn][i].t = "delete")
               => Cardinality(Places(rn, "removed", trace[rn][i].pid)) = 1
    /\ \A p \in Procs :
         (task[p].op \in {"remove", "leave_all"} /\ task[p].pc = "done")
         => task[p].res = "ok"

\* C19: no step of a prune_presences or prune_rooms call changes a subscription or calls
\* the channel layer; a step of prune_presences changes no Room, and the rows it keeps
\* keep their last_seen and user; a subscription ends only in the group_discard step of
\* a remove or leave_all call that found a Presence row of that channel in that room,
\* so a channel whose row prune_presences deleted stays subscribed until then.
C19_PruneLeavesTransport ==
    [][/\ \A p \in Procs :
            (/\ task[p].op \in {"prune_presences", "prune_rooms"}
             /\ task[p].pc # "done" /\ task'[p] # task[p])
            => /\ UNCHANGED <<groups, calls>>
               /\ task[p].op = "prune_presences"
                  => /\ rooms' = rooms
                     /\ presences' \subseteq presences
       /\ \A k \in groups \ groups' :
            \E p \in Procs :
               /\ task[p].op \in {"remove", "leave_all"}
               /\ task[p].pc = "rp_discard" /\ task'[p].pc = "rp_delete"
               /\ task[p].pres.id # 0
               /\ k = <<task[p].r.channel_name, task[p].pres.channel_name>>
       /\ \A k \in RoomNames \X Channels :
            calls'[k].discard # calls[k].discard
            => \E p \in Procs :
                  /\ task[p].pc = "rp_discard" /\ task'[p].pc = "rp_delete"
                  /\ k = <<task[p].r.channel_name, task[p].pres.channel_name>>
      ]_vars

\* prune_presences deleted the one row a channel had in a room, sent its bulk_change
\* signal and returned; a remove call for that channel and room has returned without
\* finding a row; the channel is still subscribed to the room's group, and
\* group_discard was never called for it.
C19_Witness ==
    \E p, q \in Procs :
        /\ task[p].op = "prune_presences" /\ task[p].pc = "done"
        /\ task[q].op = "remove" /\ task[q].pc = "done" /\ task[q].res = "ok"
        /\ Rows(task[q].room, task[q].ch) = {}
        /\ RoomsNamed(task[q].room) # {}
        /\ CountT(task[q].room, "create", task[q].ch) = 1
        /\ CountT(task[q].room, "bulk_delete", None) = 1
        /\ CountT(task[q].room, "bulk", None) = 1
        /\ <<task[q].room, task[q].ch>> \in groups
        /\ calls[<<task[q].room, task[q].ch>>].add = 1
        /\ calls[<<task[q].room, task[q].ch>>].discard = 0

\* Does Presence row i exist?
HasPresence(i) == \E x \in presences : x.id = i

\* Does Room row i exist, with no Presence row, while no add is in flight and none will
\* be called?
IdleEmptyRoom(i) ==
    /\ \E r \in rooms : r.id = i
    /\ ~ \E x \in presences : x.room = i
    /\ now > 0
    /\ ~ \E p \in Procs : task[p].pc # "done" /\ task[p].op = "add"

\* C20: with time advancing and prune_presences called again and again, every Presence
\* row of a channel that is never touched and never removed is eventually deleted; and
\* with prune_rooms called again and again, a Room that has no Presence row, and that no
\* add targets any more, is eventually deleted.
C20_EventuallyPruned ==
    /\ \A i \in 1..MaxOps : HasPresence(i) ~> ~HasPresence(i)
    /\ \A i \in 1..MaxOps : IdleEmptyRoom(i) ~> ~(\E r \in rooms : r.id = i)

\* The clock reached its end, rows were created and then deleted by prune_presences,
\* and no Presence and no Room is left.
C20_Witness ==
    /\ now = MaxTime
    /\ presences = {} /\ rooms = {}
    /\ nextPresenceId > 1
    /\ \E rn \in RoomNames :
         CountT(rn, "create", "c1") = 1 /\ CountT(rn, "bulk_delete", None) = 1

====
